---- MODULE Spec2Model ----
(***************************************************************************)
(* The concurrent news collector of bot/rss_collector.py: the two module   *)
(* level caches, the thread pool EXECUTOR, and the asyncio collection      *)
(* calls collect_recent_news_async / collect_ticker_news_async with their  *)
(* per-source tasks.                                                       *)
(*                                                                         *)
(* Grain of atomicity.  Coroutines run on one event loop thread: the code  *)
(* between two awaits is one step.  A pool thread runs _get_feed or        *)
(* _get_article_text; its dictionary test, its network call and its        *)
(* dictionary store are separate steps, so two threads can interleave      *)
(* between the test and the store.  The completion of a pool future wakes  *)
(* the awaiting coroutine, which runs up to its next await; futures wake   *)
(* their coroutines in completion order, so completion and wake-up are one *)
(* step here.                                                              *)
(***************************************************************************)
EXTENDS Naturals, Sequences, FiniteSets

\* ------------------------------------------------------------- bounds
NSources == 2      \* registered sources taken from RSS_FEEDS
MaxEntries == 2    \* entries of a feed document
NCalls == 2        \* collection calls made during the process lifetime
MaxTicks == 1      \* advances of the wall clock
Now0 == 3          \* wall clock when the process starts
WORKERS == 2       \* max_workers of EXECUTOR

VARIABLES
    _FEED_CACHE,      \* url -> feed document (a function on the cached urls)
    _ARTICLE_CACHE,   \* link -> text (a function on the cached links)
    queue,            \* work queue of EXECUTOR, FIFO
    running,          \* jobs a pool thread is executing (blocked on network)
    task,             \* task[c][s]: the per-source coroutine of call c
    call,             \* call[c]: the collection call c
    now,              \* wall clock, read by datetime.now()
    feedFetches,      \* url -> number of feedparser.parse(url) started
    downloads,        \* link -> number of Article(link).download() started
    news,             \* rows of the Postgres table news, in insertion order
    articles_db,      \* rows of the SQLite table articles, in insertion order
    csv_file,         \* the CSV file: whether it exists, and its rows
    saves,            \* number of persistence calls made
    last,             \* function -> the batch of its last call
    sync,             \* a synchronous collector call and the caches it sees
    net,              \* source -> the document its feed publishes
    max_workers,      \* size of EXECUTOR
    users,            \* table users of user_data.db: user_id -> token
    subscriptions,    \* table subscriptions: rows <<user_id, ticker>>
    db_call,          \* the last userdb call, and the tables before it
    WAITING_TOKEN,    \* users whose next plain text message is taken as a token
    updates,          \* the updates received, each with its handler's position
    PG_POOL,          \* the asyncpg pool, None without PostgreSQL
    portfolio,        \* committed rows of the Postgres table portfolio
    digest_run,       \* a /digest command and its per-ticker tasks
    pipeline,         \* a run of a pipeline main() and the calls it has made
    ai_news           \* rows of the Postgres table ai_news, in insertion order

collectVars == <<_FEED_CACHE, _ARTICLE_CACHE, queue, running, task, call, now,
                 feedFetches, downloads>>
storeVars == <<news, articles_db, csv_file, saves, last>>
syncVars == <<sync, net>>
poolVars == <<max_workers>>
dbVars == <<users, subscriptions, db_call>>
botVars == <<WAITING_TOKEN, updates, PG_POOL, portfolio>>
digestVars == <<digest_run>>
pipeVars == <<pipeline, ai_news>>
vars == <<collectVars, storeVars, syncVars, poolVars, dbVars, botVars,
          digestVars, pipeVars>>

\* what the actions of one part of the program leave alone
outsideCollect == <<storeVars, syncVars, poolVars, dbVars, botVars,
                    digestVars, pipeVars>>
outsideStore == <<collectVars, syncVars, poolVars, dbVars, botVars,
                  digestVars, pipeVars>>
outsideSync == <<storeVars, poolVars, dbVars, botVars, digestVars, pipeVars>>
outsideDb == <<collectVars, storeVars, syncVars, poolVars, botVars,
               digestVars, pipeVars>>
outsideBot == <<collectVars, storeVars, syncVars, poolVars, db_call,
                digestVars, pipeVars>>
outsideDigest == <<collectVars, storeVars, syncVars, poolVars, dbVars, botVars,
                   pipeVars>>
outsidePipe == <<collectVars, articles_db, csv_file, saves, last, syncVars,
                 poolVars, dbVars, botVars, digestVars>>

Sources == 1..NSources
Calls == 1..NCalls

\* ------------------------------------------------------ the registry
SourceNames == <<"A", "B", "C">>
FeedUrls == <<"u1", "u2", "u3">>

\* RSS_FEEDS: an ordered mapping name -> url; position s is its s-th item.
RSS_FEEDS(s) == [source |-> SourceNames[s], url |-> FeedUrls[s]]

Urls == {RSS_FEEDS(s).url : s \in Sources}

\* ------------------------------------------------- strings and dates
\* A string is a sequence of characters; "" is <<>>.
Upper(ch) == IF ch = "a" THEN "A" ELSE ch

\* str.upper()
upper(str) == [k \in 1..Len(str) |-> Upper(str[k])]

\* the Python test `sub in str`
Contains(sub, str) ==
    \E k \in 0..Len(str) :
        /\ k + Len(sub) <= Len(str)
        /\ \A m \in 1..Len(sub) : str[k + m] = sub[m]

\* An optional timestamp is <<>> (absent, None) or <<t>>.
NoDate == <<>>

\* entry.get("published_parsed") or entry.get("updated_parsed")
EntryDate(e) == IF e.published # NoDate THEN e.published ELSE e.updated

\* pub_date.strftime("%Y-%m-%d %H:%M"): a non-empty text fixed by the date
strftime(d) == <<"d", d[1]>>

\* ------------------------------------------------------- the network
\* What the sources publish, in feed order.
Published(s) ==
    IF s = 1 THEN
        << [published |-> <<2>>, updated |-> NoDate, link |-> "la",
            title |-> <<"a">>, summary |-> <<>>],
           [published |-> NoDate, updated |-> NoDate, link |-> "",
            title |-> <<"x", "A">>, summary |-> <<>>],
           [published |-> <<0>>, updated |-> <<5>>, link |-> "lb",
            title |-> <<"x">>, summary |-> <<"a">>] >>
    ELSE
        << [published |-> NoDate, updated |-> <<2>>, link |-> "la",
            title |-> <<"x">>, summary |-> <<"a", "x">>],
           [published |-> <<5>>, updated |-> <<0>>, link |-> "lb",
            title |-> <<"x">>, summary |-> <<>>],
           [published |-> <<0>>, updated |-> NoDate, link |-> "lc",
            title |-> <<"A">>, summary |-> <<>>] >>

Links == {"la", "lb", "lc"}

\* The documents feedparser.parse(url) can produce for source s: the first
\* n published entries.  The empty document is also what an unreachable or
\* unparseable feed yields.
Docs(s) == {SubSeq(Published(s), 1, n) : n \in 0..MaxEntries}

Hours == {1, 2}
Tickers == {<<"a">>, <<"A">>}

\* ------------------------------------------------------ the filters
\* _is_recent without its `if not entry_date_struct` test
IsRecentUnguarded(entry_date_struct, delta_hours, clock) ==
    \/ entry_date_struct = NoDate
    \/ entry_date_struct[1] + delta_hours >= clock

\* _is_recent with the comparison turned round
IsRecentReversed(entry_date_struct, delta_hours, clock) ==
    IF entry_date_struct = NoDate THEN FALSE
    ELSE entry_date_struct[1] + delta_hours <= clock

\* _is_recent(entry_date_struct, delta_hours), reading datetime.now()
\* as `clock`
_is_recent(entry_date_struct, delta_hours, clock) ==
    IF entry_date_struct = NoDate THEN FALSE
    ELSE entry_date_struct[1] + delta_hours >= clock

\* the filter looking at the title only
TitleOnlyMatch(ticker_up, e) == Contains(ticker_up, upper(e.title))

\* f"{entry.get('title', '')} {entry.get('summary', '')}"
text_summary(e) == e.title \o <<" ">> \o e.summary

\* ticker_up in text_summary.upper()
TickerMatch(ticker_up, e) == Contains(ticker_up, upper(text_summary(e)))

\* The test of the loop body of a per-source coroutine.  arg is `hours` of
\* a Recent call and `ticker_up` of a ByTicker call.
Matches(kind, arg, e, clock) ==
    IF kind = "recent" THEN _is_recent(EntryDate(e), arg, clock)
    ELSE TickerMatch(arg, e)

\* The record a per-source coroutine appends for entry e of source s.
Record(kind, s, e, text) ==
    IF kind = "recent" THEN
        [source |-> RSS_FEEDS(s).source,
         date |-> IF EntryDate(e) # NoDate THEN strftime(EntryDate(e)) ELSE <<>>,
         title |-> e.title, link |-> e.link, text |-> text]
    ELSE
        [source |-> RSS_FEEDS(s).source,
         title |-> e.title, link |-> e.link, text |-> text]

\* ------------------------------------------------------------ state
IdleTask == [pc |-> "idle", i |-> 0, feed |-> <<>>, articles |-> <<>>,
             took |-> {}, fin |-> 0]

IdleCall == [status |-> "idle", kind |-> "recent", given |-> 0, arg |-> 0,
             result |-> <<>>]

EmptyCache == [k \in {} |-> <<>>]

IdleSync == [pc |-> "idle", s |-> 0, i |-> 0, feed |-> <<>>,
             feed_cache |-> EmptyCache, article_cache |-> EmptyCache,
             collected |-> <<>>, now |-> Now0]

Store(cache, key, value) ==
    [k \in DOMAIN cache \cup {key} |-> IF k = key THEN value ELSE cache[k]]

\* /digest not received
IdleDigest == [pc |-> "idle", user |-> 0, tickers |-> <<>>, tasks |-> <<>>,
               finished |-> <<>>, reply |-> <<>>]

\* no pipeline started
IdlePipeline == [pc |-> "idle", main |-> "", articles |-> <<>>, i |-> 0,
                 analysed |-> <<>>, csv |-> <<>>, log |-> <<>>]

\* The state after import, but for the size of the pool.
Imported ==
    /\ _FEED_CACHE = EmptyCache
    /\ _ARTICLE_CACHE = EmptyCache
    /\ queue = <<>>
    /\ running = {}
    /\ task = [c \in Calls |-> [s \in Sources |-> IdleTask]]
    /\ call = [c \in Calls |-> IdleCall]
    /\ now = Now0
    /\ feedFetches = [u \in Urls |-> 0]
    /\ downloads = [l \in Links |-> 0]
    /\ news = <<>>
    /\ articles_db = <<>>
    /\ csv_file = [exists |-> FALSE, rows |-> <<>>]
    /\ saves = 0
    /\ last = [op \in {"insert_articles", "save_articles_to_db",
                       "save_articles_to_csv"} |-> <<>>]
    /\ sync = IdleSync
    /\ net = [s \in Sources |-> <<>>]
    /\ users = [u \in {} |-> "None"]
    /\ subscriptions = <<>>
    /\ db_call = [name |-> "init_db", user_id |-> 0, arg |-> <<>>, n |-> 0,
                  users |-> users, subscriptions |-> subscriptions]
    /\ WAITING_TOKEN = {}
    /\ updates = <<>>
    /\ PG_POOL = "None"
    /\ portfolio = {}
    /\ digest_run = IdleDigest
    /\ pipeline = IdlePipeline
    /\ ai_news = <<>>

Init == Imported /\ max_workers = WORKERS

\* Number of tasks of call c that have finished.
Finished(c) == Cardinality({s \in Sources : task[c][s].pc \in {"done", "failed"}})

\* ---------------------------------------------- per-source coroutine
\* the loop resolving the text of every entry, matching or not
EveryEntry(doc, from, kind, arg, clock) ==
    IF from <= Len(doc) THEN from ELSE 0

\* The index of the first entry from `from` on that passes the filter, 0 if
\* none: the for loop of _collect_*_from_feed_async up to its next await.
NextMatch(doc, from, kind, arg, clock) ==
    LET S == {j \in from..Len(doc) : Matches(kind, arg, doc[j], clock)}
    IN IF S = {} THEN 0 ELSE CHOOSE j \in S : \A m \in S : j <= m

\* The coroutine of (c, s) runs its loop from entry `from` with the feed
\* document doc and the records collected so far: it either awaits the text
\* of the next matching entry or returns its articles.
Advance(c, s, doc, from, arts, tk) ==
    LET j == NextMatch(doc, from, call[c].kind, call[c].arg, now)
    IN IF j = 0
       THEN [pc |-> "done", i |-> 0, feed |-> doc, articles |-> arts,
             took |-> tk, fin |-> Finished(c) + 1]
       ELSE [pc |-> "text", i |-> j, feed |-> doc, articles |-> arts,
             took |-> tk \cup {j}, fin |-> 0]

\* the coroutine handing the text of the entry it reached and of the next
\* matching entry to the pool together
SubmittedTogether(q, c, s, t) ==
    IF t.pc = "text"
    THEN LET job(i) == [kind |-> "text", key |-> t.feed[i].link, c |-> c, s |-> s]
             j == NextMatch(t.feed, t.i + 1, call[c].kind, call[c].arg, now)
         IN IF j = 0 THEN Append(q, job(t.i))
            ELSE Append(Append(q, job(t.i)), job(j))
    ELSE q

\* loop.run_in_executor(EXECUTOR, _get_article_text, link) of a coroutine
\* that went on to await a text
Submitted(q, c, s, t) ==
    IF t.pc = "text"
    THEN Append(q, [kind |-> "text", key |-> t.feed[t.i].link, c |-> c, s |-> s])
    ELSE q

\* `feed = await _get_feed_async(url)` completes with doc
FeedArrived(c, s, doc) == Advance(c, s, doc, 1, <<>>, {})

\* `text = await _get_article_text_async(link)` completes with text
TextArrived(c, s, text) ==
    LET t == task[c][s]
    IN Advance(c, s, t.feed, t.i + 1,
               Append(t.articles, Record(call[c].kind, s, t.feed[t.i], text)),
               t.took)

Failed(c, s) == [task[c][s] EXCEPT !.pc = "failed", !.fin = Finished(c) + 1]

\* ------------------------------------------------------- the pool
\* a pool that starts a thread for every job
NoPoolLimit == TRUE

\* a pool whose threads are held by the per-source coroutines while they
\* wait for their job
WorkerHeldWhileAwaiting ==
    Cardinality(running)
    + Cardinality({x \in Calls \X Sources :
                      task[x[1]][x[2]].pc \in {"feed", "text"}}) < max_workers

\* ThreadPoolExecutor(max_workers=WORKERS): a queued job starts only when
\* fewer than max_workers threads are busy.
HasIdleWorker == Cardinality(running) < max_workers

FeedJob(c, s) == [kind |-> "feed", key |-> RSS_FEEDS(s).url, c |-> c, s |-> s]

\* _get_feed / _get_article_text without their dictionary test
FeedNeverCached(url) == FALSE
ArticleNeverCached(url) == FALSE

\* `url not in _FEED_CACHE` / `url in _ARTICLE_CACHE` as the thread sees it
FeedCached(url) == url \in DOMAIN _FEED_CACHE
ArticleCached(url) == url \in DOMAIN _ARTICLE_CACHE

\* the resolver treating an empty link like any other
EmptyLinkIgnored(url) == FALSE

\* `if not url: return ""`
EmptyLink(url) == url = ""

\* the ticker compared as the caller wrote it
TickerAsGiven(ticker) == ticker

\* ticker_up = ticker.upper()
ticker_up(ticker) == upper(ticker)

\* ------------------------------------------------------- actions
\* collect_recent_news_async(hours) / collect_ticker_news_async(ticker):
\* create one task per registered source; each task runs to its first await,
\* the submission of _get_feed to the pool, in registration order.
StartCall(c, kind, arg) ==
    /\ call[c].status = "idle"
    /\ \A d \in Calls : d < c => call[d].status # "idle"
    /\ call' = [call EXCEPT ![c] =
                   [status |-> "running", kind |-> kind, given |-> arg,
                    arg |-> IF kind = "ticker" THEN ticker_up(arg) ELSE arg,
                    result |-> <<>>]]
    /\ task' = [task EXCEPT ![c] = [s \in Sources |-> [IdleTask EXCEPT !.pc = "feed"]]]
    /\ queue' = queue \o [s \in Sources |-> FeedJob(c, s)]
    /\ UNCHANGED <<outsideCollect, _FEED_CACHE, _ARTICLE_CACHE, running, now, feedFetches, downloads>>

\* The wall clock advances.
Tick ==
    /\ now < Now0 + MaxTicks
    /\ now' = now + 1
    /\ UNCHANGED <<outsideCollect, _FEED_CACHE, _ARTICLE_CACHE, queue, running, task, call,
                   feedFetches, downloads>>

\* A pool thread takes the next job and runs _get_feed up to the network
\* call: on a hit it returns the cached document, on a miss it starts
\* feedparser.parse(url).
StartFeedJob ==
    /\ queue # <<>>
    /\ HasIdleWorker
    /\ Head(queue).kind = "feed"
    /\ LET j == Head(queue)
       IN IF FeedCached(j.key)
          THEN LET t == FeedArrived(j.c, j.s, _FEED_CACHE[j.key])
               IN /\ task' = [task EXCEPT ![j.c][j.s] = t]
                  /\ queue' = Submitted(Tail(queue), j.c, j.s, t)
                  /\ UNCHANGED <<running, feedFetches>>
          ELSE /\ running' = running \cup {[job |-> j, phase |-> "net"]}
               /\ feedFetches' = [feedFetches EXCEPT ![j.key] = @ + 1]
               /\ queue' = Tail(queue)
               /\ UNCHANGED task
    /\ UNCHANGED <<outsideCollect, _FEED_CACHE, _ARTICLE_CACHE, call, now, downloads>>

\* feedparser.parse(url) returns doc and `_FEED_CACHE[url] = doc` is done.
FeedParsed(r, doc) ==
    /\ r \in running
    /\ r.job.kind = "feed"
    /\ r.phase = "net"
    /\ _FEED_CACHE' = Store(_FEED_CACHE, r.job.key, doc)
    /\ running' = (running \ {r}) \cup {[r EXCEPT !.phase = "stored"]}
    /\ UNCHANGED <<outsideCollect, _ARTICLE_CACHE, queue, task, call, now, feedFetches, downloads>>

\* `return _FEED_CACHE[url]`: the thread reads the dictionary again and the
\* awaiting coroutine receives the document.
FeedReturn(r) ==
    /\ r \in running
    /\ r.job.kind = "feed"
    /\ r.phase = "stored"
    /\ LET t == FeedArrived(r.job.c, r.job.s, _FEED_CACHE[r.job.key])
       IN /\ task' = [task EXCEPT ![r.job.c][r.job.s] = t]
          /\ queue' = Submitted(queue, r.job.c, r.job.s, t)
    /\ running' = running \ {r}
    /\ UNCHANGED <<outsideCollect, _FEED_CACHE, _ARTICLE_CACHE, call, now, feedFetches, downloads>>

\* feedparser.parse(url) raises: nothing is stored, the exception travels
\* through the future into the per-source coroutine, which ends with it.
FeedRaises(r) ==
    /\ r \in running
    /\ r.job.kind = "feed"
    /\ r.phase = "net"
    /\ task' = [task EXCEPT ![r.job.c][r.job.s] = Failed(r.job.c, r.job.s)]
    /\ running' = running \ {r}
    /\ UNCHANGED <<outsideCollect, _FEED_CACHE, _ARTICLE_CACHE, queue, call, now, feedFetches, downloads>>

\* A pool thread takes the next job and runs _get_article_text up to the
\* download: "" for an empty link, the cached text on a hit, otherwise it
\* starts Article(url).download().
StartTextJob ==
    /\ queue # <<>>
    /\ HasIdleWorker
    /\ Head(queue).kind = "text"
    /\ LET j == Head(queue)
       IN IF EmptyLink(j.key) \/ ArticleCached(j.key)
          THEN LET t == TextArrived(j.c, j.s,
                            IF EmptyLink(j.key) THEN ""
                            ELSE _ARTICLE_CACHE[j.key])
               IN /\ task' = [task EXCEPT ![j.c][j.s] = t]
                  /\ queue' = Submitted(Tail(queue), j.c, j.s, t)
                  /\ UNCHANGED <<running, downloads>>
          ELSE /\ running' = running \cup {[job |-> j, phase |-> "net"]}
               /\ downloads' = [downloads EXCEPT ![j.key] = @ + 1]
               /\ queue' = Tail(queue)
               /\ UNCHANGED task
    /\ UNCHANGED <<outsideCollect, _FEED_CACHE, _ARTICLE_CACHE, call, now, feedFetches>>

\* The download and parse end, with the article text or with an exception
\* that is caught (text = ""); `_ARTICLE_CACHE[url] = text; return text`.
ArticleDone(r, text) ==
    /\ r \in running
    /\ r.job.kind = "text"
    /\ _ARTICLE_CACHE' = Store(_ARTICLE_CACHE, r.job.key, text)
    /\ LET t == TextArrived(r.job.c, r.job.s, text)
       IN /\ task' = [task EXCEPT ![r.job.c][r.job.s] = t]
          /\ queue' = Submitted(queue, r.job.c, r.job.s, t)
    /\ running' = running \ {r}
    /\ UNCHANGED <<outsideCollect, _FEED_CACHE, call, now, feedFetches, downloads>>

\* the tasks' lists in the order in which the tasks finished
RECURSIVE CollectedByCompletion(_, _)
CollectedByCompletion(c, k) ==
    IF k > NSources THEN <<>>
    ELSE LET s == CHOOSE x \in Sources : task[c][x].fin = k
         IN task[c][s].articles \o CollectedByCompletion(c, k + 1)

\* What `results = await asyncio.gather(*tasks)` followed by the extend loop
\* yields: the tasks' lists in the order of `tasks`.
RECURSIVE Collected(_, _)
Collected(c, s) ==
    IF s > NSources THEN <<>>
    ELSE task[c][s].articles \o Collected(c, s + 1)

\* gather: every task has returned, the call returns the merged list.
GatherReturns(c) ==
    /\ call[c].status = "running"
    /\ \A s \in Sources : task[c][s].pc = "done"
    /\ call' = [call EXCEPT ![c].status = "returned", ![c].result = Collected(c, 1)]
    /\ UNCHANGED <<outsideCollect, _FEED_CACHE, _ARTICLE_CACHE, queue, running, task, now,
                   feedFetches, downloads>>

\* gather (return_exceptions is not set): the first exception of a task is
\* raised in the awaiting call at once; the other tasks are left running.
GatherRaises(c) ==
    /\ call[c].status = "running"
    /\ \E s \in Sources : task[c][s].pc = "failed"
    /\ call' = [call EXCEPT ![c].status = "failed"]
    /\ UNCHANGED <<outsideCollect, _FEED_CACHE, _ARTICLE_CACHE, queue, running, task, now,
                   feedFetches, downloads>>

Texts == {"", "body"}

Next ==
    \/ \E c \in Calls, h \in Hours : StartCall(c, "recent", h)
    \/ \E c \in Calls, t \in Tickers : StartCall(c, "ticker", t)
    \/ Tick
    \/ StartFeedJob
    \/ \E r \in running : \E doc \in Docs(r.job.s) : FeedParsed(r, doc)
    \/ \E r \in running : FeedReturn(r)
    \/ \E r \in running : FeedRaises(r)
    \/ StartTextJob
    \/ \E r \in running, text \in Texts : ArticleDone(r, text)
    \/ \E c \in Calls : GatherReturns(c)
    \/ \E c \in Calls : GatherRaises(c)

Spec == Init /\ [][Next]_vars

\* ========================================================= persistence
\* Bounds of the persistence model.
MaxBatch == 2
MaxSaves == 2

\* a.get("link") of a record that has no "link" key; NULL in a table
None == "None"

\* Article records handed to the persistence functions: two with the same
\* link and different contents, two with the same title and source and
\* different links, one without a title and without a "link" key.
ArticlePool ==
    { [source |-> "A", title |-> "a", link |-> "la", text |-> "body",
       date |-> "2024-01-01 10:00"],
      [source |-> "B", title |-> "x", link |-> "la", text |-> "",
       date |-> ""],
      [source |-> "A", title |-> "a", link |-> "lb", text |-> "body",
       date |-> "bad"],
      [source |-> "A", title |-> "", link |-> None, text |-> "",
       date |-> "2024-01-01 10:00"] }

Batches == UNION {[1..n -> ArticlePool] : n \in 0..MaxBatch}

\* datetime.fromisoformat(date) for a non-empty string, utcnow() when the
\* string is empty or does not parse
published_at(date) ==
    IF date = "" \/ date = "bad" THEN "utcnow" ELSE date

\* a table whose link column carries no constraint
NeverConflicts(rows, link) == FALSE

\* `link TEXT UNIQUE`: the row to insert collides with a stored row of the
\* same link; NULLs never collide
Conflicts(rows, link) ==
    link # None /\ \E k \in 1..Len(rows) : rows[k].link = link

\* INSERT ... ON CONFLICT (link) DO NOTHING / INSERT OR IGNORE, row by row
RECURSIVE InsertAll(_, _)
InsertAll(rows, records) ==
    IF records = <<>> THEN rows
    ELSE InsertAll(IF Conflicts(rows, Head(records).link) THEN rows
                   ELSE Append(rows, Head(records)),
                   Tail(records))

\* the tuple insert_articles builds of a record
NewsRow(a) ==
    [source |-> a.source, title |-> a.title, link |-> a.link,
     body |-> a.text, published_at |-> published_at(a.date)]

\* the tuple save_articles_to_db builds of a record
ArticlesRow(a) ==
    [source |-> a.source, title |-> a.title, link |-> a.link, text |-> a.text]

\* insert_articles(pool, articles)
insert_articles(batch) ==
    /\ saves < MaxSaves
    /\ news' = IF batch = <<>> THEN news
               ELSE InsertAll(news, [k \in 1..Len(batch) |-> NewsRow(batch[k])])
    /\ saves' = saves + 1
    /\ last' = [last EXCEPT !["insert_articles"] = batch]
    /\ UNCHANGED <<outsideStore, articles_db, csv_file>>

\* save_articles_to_db(articles)
save_articles_to_db(batch) ==
    /\ saves < MaxSaves
    /\ articles_db' = IF batch = <<>> THEN articles_db
                      ELSE InsertAll(articles_db,
                               [k \in 1..Len(batch) |-> ArticlesRow(batch[k])])
    /\ saves' = saves + 1
    /\ last' = [last EXCEPT !["save_articles_to_db"] = batch]
    /\ UNCHANGED <<outsideStore, news, csv_file>>
\* a missing value of a data frame
NaN == "NaN"

\* pd.read_csv(path): an empty cell is read as a missing value
read_csv(rows) ==
    [k \in 1..Len(rows) |->
        [f \in DOMAIN rows[k] |-> IF rows[k][f] = "" THEN NaN ELSE rows[k][f]]]

\* df.to_csv(path, index=False): a missing value is written as an empty cell
to_csv(rows) ==
    [k \in 1..Len(rows) |->
        [f \in DOMAIN rows[k] |->
            IF rows[k][f] \in {NaN, None} THEN "" ELSE rows[k][f]]]

\* .drop_duplicates(subset=["title", "source"]): the first row of every
\* (title, source) pair is kept
RECURSIVE drop_duplicates(_)
drop_duplicates(rows) ==
    IF rows = <<>> THEN <<>>
    ELSE LET n == Len(rows)
             front == drop_duplicates(SubSeq(rows, 1, n - 1))
         IN IF \E k \in 1..(n - 1) :
                    /\ rows[k].title = rows[n].title
                    /\ rows[k].source = rows[n].source
            THEN front
            ELSE Append(front, rows[n])

\* save_articles_to_csv(articles, path)
save_articles_to_csv(batch) ==
    /\ saves < MaxSaves
    /\ csv_file' =
        IF batch = <<>> THEN csv_file
        ELSE LET df == IF csv_file.exists
                       THEN drop_duplicates(read_csv(csv_file.rows) \o batch)
                       ELSE batch
             IN [exists |-> TRUE, rows |-> to_csv(df)]
    /\ saves' = saves + 1
    /\ last' = [last EXCEPT !["save_articles_to_csv"] = batch]
    /\ UNCHANGED <<outsideStore, news, articles_db>>

StoreNext ==
    \/ \E batch \in Batches : insert_articles(batch)
    \/ \E batch \in Batches : save_articles_to_db(batch)
    \/ \E batch \in Batches : save_articles_to_csv(batch)

StoreSpec == Init /\ [][StoreNext]_vars

\* ============================================ the synchronous collectors
\* What Article(url).download(); article.parse() yields when it succeeds.
NetText(url) == IF url = "lc" THEN "" ELSE "body"

\* _get_feed(url) run by the calling thread: the cache afterwards, when the
\* network would answer doc
FeedCacheAfter(cache, url, doc) ==
    IF url \in DOMAIN cache THEN cache ELSE Store(cache, url, doc)

\* _get_article_text(url) run by the calling thread: the text it returns
TextOf(cache, url) ==
    IF url = "" THEN ""
    ELSE IF url \in DOMAIN cache THEN cache[url]
    ELSE NetText(url)

\* _get_article_text(url) run by the calling thread: the cache afterwards
ArticleCacheAfter(cache, url) ==
    IF url = "" \/ url \in DOMAIN cache THEN cache
    ELSE Store(cache, url, NetText(url))

\* The feed contents of a comparison: one document per source.
Contents == {f \in [Sources -> UNION {Docs(s) : s \in Sources}] :
                \A s \in Sources : f[s] \in Docs(s)}

\* The article caches a comparison starts from.
ArticleCaches ==
    UNION {[L -> Texts] : L \in SUBSET {"la", "lb"}}

\* Two runs are prepared from one state: the feeds publish docs, the feed
\* cache holds the documents of the sources in `cached`, the article cache
\* is ac; the synchronous collector gets a copy of the two caches.
SameStart(docs, cached, ac) ==
    /\ sync.pc = "idle"
    /\ call[1].status = "idle"
    /\ now = Now0
    /\ net' = docs
    /\ _FEED_CACHE' = [u \in {RSS_FEEDS(s).url : s \in cached} |->
                          docs[CHOOSE s \in cached : RSS_FEEDS(s).url = u]]
    /\ _ARTICLE_CACHE' = ac
    /\ sync' = [IdleSync EXCEPT !.pc = "ready",
                                !.feed_cache = _FEED_CACHE',
                                !.article_cache = ac]
    /\ UNCHANGED <<outsideSync, queue, running, task, call, now, feedFetches,
                   downloads>>

\* collect_recent_news(hours) / collect_ticker_news(ticker) is called with
\* the argument of the asynchronous call, at the instant that call started.
SyncStart ==
    /\ sync.pc = "ready"
    /\ call[1].status = "returned"
    /\ sync' = [sync EXCEPT !.pc = "feed", !.s = 1]
    /\ UNCHANGED <<collectVars, outsideSync, net>>

\* `hours`, or `ticker_up = ticker.upper()` of collect_ticker_news
SyncArg ==
    IF call[1].kind = "ticker" THEN ticker_up(call[1].given)
    ELSE call[1].given

\* `feed = _get_feed(url)` for the next source of the registry
SyncFeed ==
    /\ sync.pc = "feed"
    /\ LET url == RSS_FEEDS(sync.s).url
           cache == FeedCacheAfter(sync.feed_cache, url, net[sync.s])
       IN sync' = [sync EXCEPT !.pc = "entry", !.i = 1,
                               !.feed_cache = cache, !.feed = cache[url]]
    /\ UNCHANGED <<collectVars, outsideSync, net>>

\* One round of `for entry in feed.entries`: the filter, the text of a
\* matching entry and its record; after the last entry the next source, or
\* `return collected`.
SyncEntry ==
    /\ sync.pc = "entry"
    /\ IF sync.i > Len(sync.feed)
       THEN sync' = [sync EXCEPT !.pc = IF sync.s = NSources THEN "done"
                                            ELSE "feed",
                                 !.s = sync.s + 1]
       ELSE LET e == sync.feed[sync.i]
            IN IF Matches(call[1].kind, SyncArg, e, sync.now)
               THEN sync' = [sync EXCEPT
                       !.i = sync.i + 1,
                       !.article_cache =
                           ArticleCacheAfter(sync.article_cache, e.link),
                       !.collected = Append(sync.collected,
                           Record(call[1].kind, sync.s, e,
                                  TextOf(sync.article_cache, e.link)))]
               ELSE sync' = [sync EXCEPT !.i = sync.i + 1]
    /\ UNCHANGED <<collectVars, outsideSync, net>>

\* The wall clock advances while the synchronous collector runs.
SyncTick ==
    /\ sync.pc \in {"feed", "entry"}
    /\ sync.now < Now0 + MaxTicks
    /\ sync' = [sync EXCEPT !.now = sync.now + 1]
    /\ UNCHANGED <<collectVars, outsideSync, net>>

\* The asynchronous call runs first, with no fetch failing, then the
\* synchronous one from the same caches over the same feed contents.
EquivNext ==
    \/ \E docs \in Contents, cached \in SUBSET Sources, ac \in ArticleCaches :
        SameStart(docs, cached, ac)
    \/ \E h \in Hours : sync.pc = "ready" /\ StartCall(1, "recent", h)
    \/ \E t \in Tickers : sync.pc = "ready" /\ StartCall(1, "ticker", t)
    \/ call[1].status = "running" /\ Tick
    \/ StartFeedJob
    \/ \E r \in running : FeedParsed(r, net[r.job.s])
    \/ \E r \in running : FeedReturn(r)
    \/ StartTextJob
    \/ \E r \in running : ArticleDone(r, NetText(r.job.key))
    \/ GatherReturns(1)
    \/ SyncStart
    \/ SyncFeed
    \/ SyncEntry
    \/ SyncTick

EquivSpec == Init /\ [][EquivNext]_vars

\* ================================================== termination of calls
\* The pool has any size from 1 to WORKERS.
LiveInit == Imported /\ max_workers \in 1..WORKERS

\* a feedparser.parse(url) that was started ends, with a document or with
\* an exception
FeedEnds ==
    \E r \in running :
        \/ FeedParsed(r, SubSeq(Published(r.job.s), 1, MaxEntries))
        \/ FeedRaises(r)

\* a step of a pool thread, of the network or of the event loop
Progress ==
    \/ StartFeedJob
    \/ FeedEnds
    \/ \E r \in running : FeedReturn(r)
    \/ StartTextJob
    \/ \E r \in running, text \in Texts : ArticleDone(r, text)
    \/ \E c \in Calls : GatherReturns(c)
    \/ \E c \in Calls : GatherRaises(c)

LiveNext ==
    \/ \E c \in Calls : StartCall(c, "recent", 2)
    \/ \E c \in Calls : StartCall(c, "ticker", <<"a">>)
    \/ StartFeedJob
    \/ FeedEnds
    \/ \E r \in running : FeedReturn(r)
    \/ StartTextJob
    \/ \E r \in running, text \in Texts : ArticleDone(r, text)
    \/ \E c \in Calls : GatherReturns(c)
    \/ \E c \in Calls : GatherRaises(c)

\* While a pool thread, a network operation or the event loop can take a
\* step, one of them does.
LiveSpec ==
    /\ LiveInit
    /\ [][LiveNext]_vars
    /\ WF_vars(Progress)

\* =============================================================== userdb
NUsers == 2
MaxTickers == 2
MaxDbCalls == 3
UserIds == 1..NUsers

\* Tickers as users type them, and tokens.
UserTickers == {<<"a">>, <<"A">>, <<"B">>, <<>>}
Tokens == {"t1", "t2"}

\* INSERT OR REPLACE INTO users(user_id): the row is written anew, its
\* token NULL
ReplaceUser(table, user_id) ==
    [u \in DOMAIN table \cup {user_id} |->
        IF u = user_id THEN None ELSE table[u]]

\* INSERT OR IGNORE INTO users(user_id) VALUES (?): a new row has a NULL
\* token, an existing row is left alone
InsertUser(table, user_id) ==
    IF user_id \in DOMAIN table THEN table
    ELSE [u \in DOMAIN table \cup {user_id} |->
            IF u = user_id THEN None ELSE table[u]]

\* a subscriptions table without UNIQUE(user_id, ticker)
InsertSubscriptionAgain(table, user_id, ticker) ==
    Append(table, <<user_id, ticker>>)

\* INSERT OR IGNORE INTO subscriptions (user_id, ticker) VALUES (?, ?)
\* under UNIQUE(user_id, ticker)
InsertSubscription(table, user_id, ticker) ==
    IF \E k \in 1..Len(table) : table[k] = <<user_id, ticker>> THEN table
    ELSE Append(table, <<user_id, ticker>>)

\* executemany over the tickers in the order `order` lists them
RECURSIVE InsertSubscriptions(_, _, _)
InsertSubscriptions(table, user_id, order) ==
    IF order = <<>> THEN table
    ELSE InsertSubscriptions(InsertSubscription(table, user_id, Head(order)),
                             user_id, Tail(order))

\* The orders in which a set can be iterated.
Orders(S) ==
    {o \in [1..Cardinality(S) -> S] : \A j, k \in DOMAIN o : o[j] = o[k] => j = k}

\* SELECT ticker FROM subscriptions WHERE user_id=?
RECURSIVE get_subscriptions_from(_, _)
get_subscriptions_from(table, user_id) ==
    IF table = <<>> THEN <<>>
    ELSE LET rest == get_subscriptions_from(Tail(table), user_id)
         IN IF Head(table)[1] = user_id THEN <<Head(table)[2]>> \o rest
            ELSE rest

get_subscriptions(user_id) == get_subscriptions_from(subscriptions, user_id)

\* SELECT token FROM users WHERE user_id=?; row[0] if row else None
load_token(user_id) ==
    IF user_id \in DOMAIN users THEN users[user_id] ELSE None

\* {t.upper() for t in tickers if t}
tickers_up(tickers) == {upper(tickers[k]) : k \in {j \in DOMAIN tickers : tickers[j] # <<>>}}

\* add_subscription(user_id, ticker): the two tables afterwards
AddSubscription(user_id, ticker) ==
    /\ users' = InsertUser(users, user_id)
    /\ subscriptions' = InsertSubscription(subscriptions, user_id, upper(ticker))

\* add_subscriptions(user_id, tickers): the two tables afterwards
AddSubscriptions(user_id, tickers) ==
    IF tickers_up(tickers) = {} THEN UNCHANGED <<users, subscriptions>>
    ELSE /\ users' = InsertUser(users, user_id)
         /\ \E order \in Orders(tickers_up(tickers)) :
                subscriptions' = InsertSubscriptions(subscriptions, user_id, order)

\* DELETE FROM subscriptions WHERE user_id=? AND ticker=? with ticker.upper()
RemoveSubscription(user_id, ticker) ==
    /\ subscriptions' = SelectSeq(subscriptions,
                            LAMBDA row : row # <<user_id, upper(ticker)>>)
    /\ UNCHANGED users

\* INSERT INTO users(user_id, token) ... ON CONFLICT(user_id) DO UPDATE SET
\* token=excluded.token
SaveToken(user_id, token) ==
    /\ users' = [u \in DOMAIN users \cup {user_id} |->
                    IF u = user_id THEN token ELSE users[u]]
    /\ UNCHANGED subscriptions

\* The record of a userdb call: its name, its arguments, its number and the
\* tables as it found them.
Called(name, user_id, arg) ==
    [name |-> name, user_id |-> user_id, arg |-> arg, n |-> db_call.n + 1,
     users |-> users, subscriptions |-> subscriptions]

add_subscription(user_id, ticker) ==
    /\ db_call.n < MaxDbCalls
    /\ AddSubscription(user_id, ticker)
    /\ db_call' = Called("add_subscription", user_id, <<ticker>>)
    /\ UNCHANGED outsideDb

add_subscriptions(user_id, tickers) ==
    /\ db_call.n < MaxDbCalls
    /\ AddSubscriptions(user_id, tickers)
    /\ db_call' = Called("add_subscriptions", user_id, tickers)
    /\ UNCHANGED outsideDb

remove_subscription(user_id, ticker) ==
    /\ db_call.n < MaxDbCalls
    /\ RemoveSubscription(user_id, ticker)
    /\ db_call' = Called("remove_subscription", user_id, <<ticker>>)
    /\ UNCHANGED outsideDb

save_token(user_id, token) ==
    /\ db_call.n < MaxDbCalls
    /\ SaveToken(user_id, token)
    /\ db_call' = Called("save_token", user_id, <<token>>)
    /\ UNCHANGED outsideDb

\* The ticker lists handed to add_subscriptions.
TickerLists == UNION {[1..n -> UserTickers] : n \in 0..MaxTickers}

UserDbNext ==
    \/ \E u \in UserIds, t \in UserTickers : add_subscription(u, t)
    \/ \E u \in UserIds, ts \in TickerLists : add_subscriptions(u, ts)
    \/ \E u \in UserIds, t \in UserTickers : remove_subscription(u, t)
    \/ \E u \in UserIds, tok \in Tokens : save_token(u, tok)

UserDbSpec == Init /\ [][UserDbNext]_vars

\* ============================================== the bot's update handlers
\* Application.concurrent_updates(True): every update is handled in a task
\* of its own, so the handlers of one user interleave at their awaits.  A
\* userdb call runs its statement inside the await, the handler resumes in
\* a later step.
MaxUpdates == 3    \* updates received during the process lifetime

\* Plain text messages, and what str.strip() makes of them.
Messages == {"t1", " t1", "t2"}
strip(text) == IF text = " t1" THEN "t1" ELSE text

\* What get_portfolio_data returns: the tickers of the positions.
PortfolioData == {<<>>, << <<"A">>, <<"-">> >>, << <<"B">> >>}

\* [t for t in tickers if t and t not in ('-', ...)]
PortfolioTickers(rows) ==
    SelectSeq(rows, LAMBDA t : t # <<>> /\ t # <<"-">>)

Handler(user, kind, pc) ==
    [user |-> user, kind |-> kind, pc |-> pc, token |-> None, rows |-> <<>>,
     seen |-> {}, deleted |-> {}]

\* The handler of update k has returned (or raised).
Return(k) ==
    updates' = [updates EXCEPT ![k] = Handler(@.user, @.kind, "done")]

At(k, pc) == k \in DOMAIN updates /\ updates[k].pc = pc

\* pg_startup: init_pg_pool and ensure_schema succeeded (a failure leaves
\* PG_POOL None), before the first update is polled
pg_startup ==
    /\ updates = <<>>
    /\ PG_POOL = None
    /\ PG_POOL' = "pool"
    /\ UNCHANGED <<outsideBot, users, subscriptions, WAITING_TOKEN, updates,
                   portfolio>>

\* /mybag, /chart, /analysis, and /history with arguments: the handler
\* runs up to `await load_token(user_id)`; /history without arguments
\* replies with its usage and returns
command(user, kind, args) ==
    /\ Len(updates) < MaxUpdates
    /\ updates' = Append(updates,
           Handler(user, kind,
                   IF kind = "history" /\ ~args THEN "done" ELSE "load_token"))
    /\ UNCHANGED <<outsideBot, users, subscriptions, WAITING_TOKEN, PG_POOL,
                   portfolio>>

\* handle_token_message up to `await save_token(user_id, token)`
handle_token_message(user, text) ==
    /\ Len(updates) < MaxUpdates
    /\ updates' = Append(updates,
           IF user \notin WAITING_TOKEN THEN Handler(user, "text", "done")
           ELSE [Handler(user, "text", "save_token")
                    EXCEPT !.token = strip(text)])
    /\ UNCHANGED <<outsideBot, users, subscriptions, WAITING_TOKEN, PG_POOL,
                   portfolio>>

\* the SELECT of load_token
TokenRead(k) ==
    /\ At(k, "load_token")
    /\ updates' = [updates EXCEPT ![k].pc = "loaded",
                                  ![k].token = load_token(updates[k].user)]
    /\ UNCHANGED <<outsideBot, users, subscriptions, WAITING_TOKEN, PG_POOL,
                   portfolio>>

\* `token = await load_token(user_id)` resumes: without a token the user is
\* added to WAITING_TOKEN and asked for one; with one, /mybag goes on to the
\* portfolio and the other commands to work that touches no state
TokenLoaded(k) ==
    /\ At(k, "loaded")
    /\ IF updates[k].token = None
       THEN /\ WAITING_TOKEN' = WAITING_TOKEN \cup {updates[k].user}
            /\ Return(k)
       ELSE /\ UNCHANGED WAITING_TOKEN
            /\ IF updates[k].kind = "mybag"
               THEN updates' = [updates EXCEPT ![k].pc = "portfolio"]
               ELSE Return(k)
    /\ UNCHANGED <<outsideBot, users, subscriptions, PG_POOL, portfolio>>

\* the upsert of save_token
TokenSaved(k) ==
    /\ At(k, "save_token")
    /\ SaveToken(updates[k].user, updates[k].token)
    /\ updates' = [updates EXCEPT ![k].pc = "saved"]
    /\ UNCHANGED <<outsideBot, WAITING_TOKEN, PG_POOL, portfolio>>

\* `await save_token(...)` resumes: WAITING_TOKEN.discard(user_id)
Discard(k) ==
    /\ At(k, "saved")
    /\ WAITING_TOKEN' = WAITING_TOKEN \ {updates[k].user}
    /\ updates' = [updates EXCEPT ![k].pc = "portfolio"]
    /\ UNCHANGED <<outsideBot, users, subscriptions, PG_POOL, portfolio>>

\* get_portfolio_text and get_portfolio_data answer
PortfolioRead(k, data) ==
    /\ At(k, "portfolio")
    /\ updates' = [updates EXCEPT ![k].pc = "add_subscriptions",
                                  ![k].rows = data]
    /\ UNCHANGED <<outsideBot, users, subscriptions, WAITING_TOKEN, PG_POOL,
                   portfolio>>

\* one of the two raises (a rejected token, the network): the handler ends
PortfolioRaises(k) ==
    /\ At(k, "portfolio")
    /\ Return(k)
    /\ UNCHANGED <<outsideBot, users, subscriptions, WAITING_TOKEN, PG_POOL,
                   portfolio>>

\* add_subscriptions(user_id, tickers of the portfolio); `if PG_POOL`
SubscriptionsAdded(k) ==
    /\ At(k, "add_subscriptions")
    /\ AddSubscriptions(updates[k].user, PortfolioTickers(updates[k].rows))
    /\ IF PG_POOL = None THEN Return(k)
       ELSE updates' = [updates EXCEPT ![k].pc = "replace_portfolio"]
    /\ UNCHANGED <<outsideBot, WAITING_TOKEN, PG_POOL, portfolio>>

\* ---- replace_portfolio under READ COMMITTED, statement by statement
\* SELECT ... FROM portfolio WHERE user_id=$1: the committed rows
fetch_portfolio(user_id) == {r \in portfolio : r.user_id = user_id}

\* Rows another open transaction has deleted and not yet committed.
LockedByOthers(k) ==
    UNION {updates[o].deleted : o \in DOMAIN updates \ {k}}

\* the table after the transaction of update k commits: its deletions
\* applied, its records inserted
Committed(k) ==
    (portfolio \ updates[k].deleted) \cup
    {[user_id |-> updates[k].user, ticker |-> updates[k].rows[j],
      by |-> k, pos |-> j] : j \in DOMAIN updates[k].rows}

\* DELETE FROM portfolio WHERE user_id=$1 starts: it works on the rows
\* committed when it starts
DeleteStarts(k) ==
    /\ At(k, "replace_portfolio")
    /\ updates' = [updates EXCEPT ![k].pc = "delete",
                                  ![k].seen = fetch_portfolio(updates[k].user)]
    /\ UNCHANGED <<outsideBot, users, subscriptions, WAITING_TOKEN, PG_POOL,
                   portfolio>>

\* the DELETE ends: it waits for the transactions holding rows it saw,
\* then deletes those of its rows that are still there.  With no rows to
\* insert the statement is the whole call and commits by itself.
DeleteEnds(k) ==
    /\ At(k, "delete")
    /\ updates[k].seen \cap LockedByOthers(k) = {}
    /\ IF updates[k].rows = <<>>
       THEN /\ portfolio' = portfolio \ updates[k].seen
            /\ Return(k)
       ELSE /\ updates' = [updates EXCEPT ![k].pc = "insert",
                               ![k].deleted = updates[k].seen \cap portfolio]
            /\ UNCHANGED portfolio
    /\ UNCHANGED <<outsideBot, users, subscriptions, WAITING_TOKEN, PG_POOL>>

\* executemany INSERT, and the commit on leaving conn.transaction()
InsertCommits(k) ==
    /\ At(k, "insert")
    /\ portfolio' = Committed(k)
    /\ Return(k)
    /\ UNCHANGED <<outsideBot, users, subscriptions, WAITING_TOKEN, PG_POOL>>

\* the INSERT raises: the transaction rolls back, mybag logs the error
InsertRaises(k) ==
    /\ At(k, "insert")
    /\ Return(k)
    /\ UNCHANGED <<outsideBot, users, subscriptions, WAITING_TOKEN, PG_POOL,
                   portfolio>>

TokenCommands == {"mybag", "chart", "history", "analysis"}

BotNext ==
    \/ pg_startup
    \/ \E u \in UserIds, kind \in TokenCommands, args \in BOOLEAN :
           command(u, kind, args)
    \/ \E u \in UserIds, text \in Messages : handle_token_message(u, text)
    \/ \E k \in 1..MaxUpdates :
           \/ TokenRead(k)
           \/ TokenLoaded(k)
           \/ TokenSaved(k)
           \/ Discard(k)
           \/ \E data \in PortfolioData : PortfolioRead(k, data)
           \/ PortfolioRaises(k)
           \/ SubscriptionsAdded(k)
           \/ DeleteStarts(k)
           \/ DeleteEnds(k)
           \/ InsertCommits(k)
           \/ InsertRaises(k)

BotSpec == Init /\ [][BotNext]_vars

\* ================================================================ /digest
\* One /digest command.  digest() creates one get_news_digest task per
\* subscribed ticker; task k awaits collection call k of the collector
\* above, then summarizes the articles one after the other in a thread.
limit == 3         \* get_news_digest(ticker, limit=3)

\* what a get_news_digest task yields, and the text of a section
ErrorMessage == [kind |-> "error", parts |-> <<>>]
NotFound == [kind |-> "not_found", parts |-> <<>>]
Raised == [kind |-> "exception", parts |-> <<>>]
Digest(parts) == [kind |-> "digest", parts |-> parts]

\* summarize_text(text)
summarize_text(text) == <<"summary", text>>

\* f"*{art['title']}*\n{summary}\n{art['link']}"
Part(art, summary) == [title |-> art.title, summary |-> summary, link |-> art.link]

NewTask == [pc |-> "collect", i |-> 0, parts |-> <<>>, result |-> Raised,
            raised |-> "no"]

\* articles_data[:limit]
FirstArticles(k) ==
    SubSeq(call[k].result, 1,
           IF Len(call[k].result) < limit THEN Len(call[k].result) ELSE limit)

\* the results in the order in which the tasks finished
AsCompleted(run) ==
    [k \in DOMAIN run.finished |-> run.tasks[run.finished[k]].result]

\* digests = await asyncio.gather(*tasks, return_exceptions=True): the
\* results in the order of `tasks`
Gathered(run) == [k \in DOMAIN run.tasks |-> run.tasks[k].result]

\* the loop over zip(tickers, digests): one section per pair
Sections(tickers, digests) ==
    [k \in 1..(IF Len(tickers) < Len(digests) THEN Len(tickers) ELSE Len(digests)) |->
        [ticker |-> tickers[k],
         msg |-> IF digests[k] = Raised THEN ErrorMessage ELSE digests[k]]]

\* digest up to `await asyncio.gather(...)`; without subscriptions it
\* replies that there are none
digest(user) ==
    /\ digest_run.pc = "idle"
    /\ Len(get_subscriptions(user)) <= NCalls
    /\ digest_run' =
          LET tickers == get_subscriptions(user)
          IN [pc |-> IF tickers = <<>> THEN "replied" ELSE "gather",
              user |-> user, tickers |-> tickers,
              tasks |-> [k \in DOMAIN tickers |-> NewTask],
              finished |-> <<>>, reply |-> <<>>]
    /\ UNCHANGED outsideDigest

\* task k ends with `result`
Finish(k, result, raised) ==
    digest_run' = [digest_run EXCEPT
        !.tasks[k] = [pc |-> "done", i |-> 0, parts |-> <<>>,
                      result |-> result, raised |-> raised],
        !.finished = Append(@, k)]

\* `await collect_ticker_news_async(ticker)` of task k resumes: an
\* exception is caught and gives the error message, no article gives
\* the not-found message, otherwise the summarizing loop starts
Collection(k) ==
    /\ digest_run.pc = "gather"
    /\ k \in DOMAIN digest_run.tasks
    /\ digest_run.tasks[k].pc = "collect"
    /\ call[k].status \in {"returned", "failed"}
    /\ IF call[k].status = "failed" THEN Finish(k, ErrorMessage, "collect")
       ELSE IF call[k].result = <<>> THEN Finish(k, NotFound, "no")
       ELSE digest_run' = [digest_run EXCEPT !.tasks[k].pc = "summarize",
                                             !.tasks[k].i = 1]
    /\ UNCHANGED outsideDigest

\* one turn of the loop of task k: the article has no text and gets an
\* empty summary, or summarize_text returns in its thread
Summarized(k) ==
    /\ digest_run.pc = "gather"
    /\ k \in DOMAIN digest_run.tasks
    /\ digest_run.tasks[k].pc = "summarize"
    /\ LET t == digest_run.tasks[k]
           art == FirstArticles(k)[t.i]
           parts == Append(t.parts,
                       Part(art, IF art.text = "" THEN <<>>
                                 ELSE summarize_text(art.text)))
       IN IF t.i = Len(FirstArticles(k)) THEN Finish(k, Digest(parts), "no")
          ELSE digest_run' = [digest_run EXCEPT !.tasks[k].i = @ + 1,
                                                !.tasks[k].parts = parts]
    /\ UNCHANGED outsideDigest

\* summarize_text raises in its thread: the task ends with the exception
SummaryRaises(k) ==
    /\ digest_run.pc = "gather"
    /\ k \in DOMAIN digest_run.tasks
    /\ digest_run.tasks[k].pc = "summarize"
    /\ FirstArticles(k)[digest_run.tasks[k].i].text # ""
    /\ Finish(k, Raised, "summarize")
    /\ UNCHANGED outsideDigest

\* gather returns, the sections are built and sent as one message
DigestReplies ==
    /\ digest_run.pc = "gather"
    /\ \A k \in DOMAIN digest_run.tasks : digest_run.tasks[k].pc = "done"
    /\ digest_run' = [digest_run EXCEPT
           !.pc = "replied",
           !.reply = Sections(digest_run.tickers, Gathered(digest_run))]
    /\ UNCHANGED outsideDigest

\* tickers the users subscribe to before the command
DigestTickers == {<<"a">>, <<"B">>}

DigestNext ==
    \/ \E u \in UserIds, t \in DigestTickers :
           digest_run.pc = "idle" /\ db_call.n < NCalls /\ add_subscription(u, t)
    \/ \E u \in UserIds : digest(u)
    \/ \E c \in DOMAIN digest_run.tasks :
           digest_run.pc = "gather" /\ StartCall(c, "ticker", digest_run.tickers[c])
    \/ StartFeedJob
    \/ FeedEnds
    \/ \E r \in running : FeedReturn(r)
    \/ StartTextJob
    \/ \E r \in running, text \in Texts : ArticleDone(r, text)
    \/ \E c \in Calls : GatherReturns(c)
    \/ \E c \in Calls : GatherRaises(c)
    \/ \E k \in Calls : Collection(k)
    \/ \E k \in Calls : Summarized(k)
    \/ \E k \in Calls : SummaryRaises(k)
    \/ DigestReplies

DigestSpec == Init /\ [][DigestNext]_vars

\* ============================================================ pipelines
\* One run of pg_collector.main, one_time_summary.main or
\* rss_ai_pipeline.main.  The articles collect_recent_news_async returns
\* are an input here; pipeline.log lists the calls made to insert_articles,
\* analyze_text and insert_ai_articles with their arguments.
Mains == {"pg_collector", "one_time_summary", "rss_ai_pipeline"}

\* What analyze_text(text) does: it returns the dictionary parsed from the
\* model's answer, returns None (no key, an error of the service, an answer
\* that is not JSON), or raises (the answer is JSON and not an object, so
\* data["raw_text"] = text fails).
AnalysisOutcomes == {"result", "None", "raises"}

\* the record main() makes of a result without setting result['link']
AiRecordNoLink(art) ==
    [title |-> art.title, link |-> None, published_at |-> art.date,
     raw_text |-> <<art.title, art.text>>]

\* the result of analyze_text for art, after main() has set its title,
\* link and published_at
AiRecord(art) ==
    [title |-> art.title, link |-> art.link, published_at |-> art.date,
     raw_text |-> <<art.title, art.text>>]

\* the tuple insert_ai_articles builds of a record
AiNewsRow(a) ==
    [title |-> a.title, link |-> a.link, raw_text |-> a.raw_text,
     published_at |-> published_at(a.published_at)]

Logged(call_name, arg) ==
    Append(pipeline.log, [call |-> call_name, arg |-> arg])

\* the run is over: main() returned, or an exception ended it
RunEnded(run) == [run EXCEPT !.pc = "ended"]

\* asyncio.run(main(...))
StartMain(main) ==
    /\ pipeline.pc = "idle"
    /\ pipeline' = [pipeline EXCEPT !.pc = "init_pool", !.main = main]
    /\ UNCHANGED <<outsidePipe, news, ai_news>>

\* init_pool and ensure_schema
PoolReady ==
    /\ pipeline.pc = "init_pool"
    /\ pipeline' = [pipeline EXCEPT !.pc = "collect"]
    /\ UNCHANGED <<outsidePipe, news, ai_news>>

\* init_pool raises: two mains log the error and return, rss_ai_pipeline
\* lets the exception through
PoolFails ==
    /\ pipeline.pc = "init_pool"
    /\ pipeline' = RunEnded(pipeline)
    /\ UNCHANGED <<outsidePipe, news, ai_news>>

\* articles = await collect_recent_news_async(hours); rss_ai_pipeline
\* calls insert_articles only `if articles`
Collects(batch) ==
    /\ pipeline.pc = "collect"
    /\ pipeline' = [pipeline EXCEPT
          !.articles = batch,
          !.pc = IF batch = <<>> /\ pipeline.main = "rss_ai_pipeline"
                 THEN "ended" ELSE "insert_articles"]
    /\ UNCHANGED <<outsidePipe, news, ai_news>>

\* collect_recent_news_async raises
CollectRaises ==
    /\ pipeline.pc = "collect"
    /\ pipeline' = RunEnded(pipeline)
    /\ UNCHANGED <<outsidePipe, news, ai_news>>

\* await insert_articles(pool, articles); with no article the loop and
\* `if analysed` do nothing and the run ends
NewsInserted ==
    /\ pipeline.pc = "insert_articles"
    /\ news' = IF pipeline.articles = <<>> THEN news
               ELSE InsertAll(news, [k \in 1..Len(pipeline.articles) |->
                                        NewsRow(pipeline.articles[k])])
    /\ pipeline' = [pipeline EXCEPT
          !.pc = IF pipeline.articles = <<>> THEN "ended" ELSE "analyse",
          !.i = 1,
          !.log = Logged("insert_articles", pipeline.articles)]
    /\ UNCHANGED <<outsidePipe, ai_news>>

\* insert_articles raises (the database is gone)
NewsInsertRaises ==
    /\ pipeline.pc = "insert_articles"
    /\ pipeline' = RunEnded(pipeline)
    /\ UNCHANGED <<outsidePipe, news, ai_news>>

\* one turn of `for art in articles`: result = await analyze_text(text);
\* a result is completed and appended, None is skipped, an exception ends
\* the run.  After the last article, `if analysed`.
Analysed(outcome) ==
    /\ pipeline.pc = "analyse"
    /\ LET art == pipeline.articles[pipeline.i]
           analysed == IF outcome = "result"
                       THEN Append(pipeline.analysed, AiRecord(art))
                       ELSE pipeline.analysed
           log == Logged("analyze_text", <<pipeline.i, outcome>>)
       IN pipeline' =
            IF outcome = "raises"
            THEN [RunEnded(pipeline) EXCEPT !.log = log]
            ELSE [pipeline EXCEPT
                    !.analysed = analysed,
                    !.log = log,
                    !.i = @ + 1,
                    !.pc = IF pipeline.i < Len(pipeline.articles) THEN "analyse"
                           ELSE IF analysed # <<>> THEN "insert_ai_articles"
                           ELSE "ended"]
    /\ UNCHANGED <<outsidePipe, news, ai_news>>

\* await insert_ai_articles(pool, analysed); rss_ai_pipeline then writes
\* news_analysis.csv; pool.close()
AiInserted ==
    /\ pipeline.pc = "insert_ai_articles"
    /\ ai_news' = InsertAll(ai_news, [k \in 1..Len(pipeline.analysed) |->
                                         AiNewsRow(pipeline.analysed[k])])
    /\ pipeline' = [pipeline EXCEPT
          !.pc = "ended",
          !.csv = IF pipeline.main = "rss_ai_pipeline" THEN pipeline.analysed
                  ELSE <<>>,
          !.log = Logged("insert_ai_articles", pipeline.analysed)]
    /\ UNCHANGED <<outsidePipe, news>>

PipeNext ==
    \/ \E main \in Mains : StartMain(main)
    \/ PoolReady
    \/ PoolFails
    \/ \E batch \in Batches : Collects(batch)
    \/ CollectRaises
    \/ NewsInserted
    \/ NewsInsertRaises
    \/ \E outcome \in AnalysisOutcomes : Analysed(outcome)
    \/ AiInserted

PipeSpec == Init /\ [][PipeNext]_vars

\* ================================================================ claims
Ended(c) == call[c].status \in {"returned", "failed"}
Over(c, s) == task[c][s].pc \in {"done", "failed"}

\* C1: fault isolation.  When the per-source task of one source raises, the
\* call still returns normally, with the articles of every other source and
\* none of the failing source; it never ends with the exception.
C1_FaultIsolation ==
    \A c \in Calls :
        (\E s \in Sources : task[c][s].pc = "failed") =>
            /\ call[c].status # "failed"
            /\ (\A s \in Sources : Over(c, s)) => call[c].status = "returned"

\* The key (source, link, title) of the record made from entry i of source s.
KeyOf(c, s, i) ==
    <<RSS_FEEDS(s).source, task[c][s].feed[i].link, task[c][s].feed[i].title>>

RECURSIVE KeysFrom(_, _, _)
KeysFrom(c, s, i) ==
    IF s > NSources THEN <<>>
    ELSE IF i > Len(task[c][s].feed) THEN KeysFrom(c, s + 1, 1)
    ELSE IF i \in task[c][s].took THEN <<KeyOf(c, s, i)>> \o KeysFrom(c, s, i + 1)
    ELSE KeysFrom(c, s, i + 1)

ResultKeys(c) ==
    [k \in 1..Len(call[c].result) |->
        <<call[c].result[k].source, call[c].result[k].link, call[c].result[k].title>>]

\* C2: the list a collection call returns holds the records of the matching
\* entries ordered by the position of the source in RSS_FEEDS and then by
\* the position of the entry in the source's feed, whatever the order in
\* which the per-source tasks finished.
C2_RegistryOrder ==
    \A c \in Calls :
        call[c].status = "returned" => ResultKeys(c) = KeysFrom(c, 1, 1)

\* A call has returned records of sources 1 and 2 although the task of
\* source 2 finished before the task of source 1.
C2_Witness ==
    \E c \in Calls :
        /\ call[c].status = "returned"
        /\ task[c][2].fin < task[c][1].fin
        /\ task[c][1].articles # <<>>
        /\ task[c][2].articles # <<>>
        /\ Len(call[c].result) >= 2

\* C3 as claimed: the download of a link is started at most once in the
\* process, also when two tasks resolve the link at the same time.
C3_AtMostOneDownload == \A l \in Links : downloads[l] <= 1

\* C3 as amended: once a link has a text in _ARTICLE_CACHE no download of it
\* is started any more; every lookup that starts later is answered from the
\* cache.
C3_NoDownloadOnceCached ==
    [][\A l \in Links : l \in DOMAIN _ARTICLE_CACHE => downloads'[l] = downloads[l]]_vars

\* Two tasks have each received the text of link "la" for a record and the
\* link was downloaded once.
C3_Witness ==
    /\ downloads["la"] = 1
    /\ "la" \in DOMAIN _ARTICLE_CACHE
    /\ \E c1, c2 \in Calls, s1, s2 \in Sources :
        /\ <<c1, s1>> # <<c2, s2>>
        /\ \E k \in 1..Len(task[c1][s1].articles) : task[c1][s1].articles[k].link = "la"
        /\ \E k \in 1..Len(task[c2][s2].articles) : task[c2][s2].articles[k].link = "la"

\* C4 as claimed: a feed URL is fetched at most once in the process, also
\* when several collection calls run at the same time.  Stated for the runs
\* in which no fetch has raised.
C4_OneFetchPerUrl ==
    (\A c \in Calls, s \in Sources : task[c][s].pc # "failed") =>
        \A u \in Urls : feedFetches[u] <= 1

\* C4 as amended: once a document is stored for a URL in _FEED_CACHE no
\* fetch of that URL is started any more; every _get_feed that starts later
\* returns the stored document.
C4_NoFetchOnceCached ==
    [][\A u \in Urls : u \in DOMAIN _FEED_CACHE => feedFetches'[u] = feedFetches[u]]_vars

\* The tasks of two calls have both received the document of the first URL,
\* which was fetched once.
C4_Witness ==
    /\ feedFetches[RSS_FEEDS(1).url] = 1
    /\ RSS_FEEDS(1).url \in DOMAIN _FEED_CACHE
    /\ \E c1, c2 \in Calls :
        /\ c1 # c2
        /\ task[c1][1].pc \in {"text", "done"}
        /\ task[c2][1].pc \in {"text", "done"}

\* C5: the caches are append-only.  A key that has a value keeps it: it is
\* never removed and its value never changes.
C5_AppendOnly ==
    [][/\ \A u \in DOMAIN _FEED_CACHE :
            u \in DOMAIN _FEED_CACHE' /\ _FEED_CACHE'[u] = _FEED_CACHE[u]
       /\ \A l \in DOMAIN _ARTICLE_CACHE :
            l \in DOMAIN _ARTICLE_CACHE' /\ _ARTICLE_CACHE'[l] = _ARTICLE_CACHE[l]]_vars

\* The jobs of task (c, s) that the pool holds, queued or running.
Pending(c, s) ==
    Cardinality({k \in 1..Len(queue) : queue[k].c = c /\ queue[k].s = s})
    + Cardinality({r \in running : r.job.c = c /\ r.job.s = s})

\* C6: at most WORKERS blocking operations run at the same time, and a
\* request is never rejected or dropped: the job of every task that awaits
\* the pool is in the queue or running.
C6_PoolBound ==
    /\ Cardinality(running) <= WORKERS
    /\ \A c \in Calls, s \in Sources :
        Pending(c, s) = IF task[c][s].pc \in {"feed", "text"} THEN 1 ELSE 0

\* All workers are busy and a request waits in the queue.
C6_Witness == Cardinality(running) = WORKERS /\ queue # <<>>

\* C7: when a collection call returns or fails, none of its per-source
\* tasks is still running.
C7_EndsAfterTasks ==
    \A c \in Calls : Ended(c) => \A s \in Sources : Over(c, s)

\* C8: within one Recent call one cutoff is applied to every entry: two
\* entries with the same timestamp, in the same or in different sources,
\* are both included or both excluded.
C8_OneCutoff ==
    \A c \in Calls :
        (call[c].status = "returned" /\ call[c].kind = "recent") =>
            \A s1, s2 \in Sources :
                \A i1 \in 1..Len(task[c][s1].feed), i2 \in 1..Len(task[c][s2].feed) :
                    EntryDate(task[c][s1].feed[i1]) = EntryDate(task[c][s2].feed[i2])
                        => (i1 \in task[c][s1].took <=> i2 \in task[c][s2].took)

\* t lies in the window [clock - hours, clock]
InWindow(d, hours, clock) ==
    d # NoDate /\ d[1] + hours >= clock /\ d[1] <= clock

\* C9: Recent(hours) returns exactly the entries dated within
\* [now - hours, now]; an entry dated after now is excluded.  `now` is any
\* instant the clock showed up to the return of the call.
C9_Window ==
    \A c \in Calls :
        (call[c].status = "returned" /\ call[c].kind = "recent") =>
            \A s \in Sources : \A i \in 1..Len(task[c][s].feed) :
                LET d == EntryDate(task[c][s].feed[i])
                IN IF i \in task[c][s].took
                   THEN \E n \in Now0..now : InWindow(d, call[c].arg, n)
                   ELSE \E n \in Now0..now : ~InWindow(d, call[c].arg, n)

\* C10: a Recent call never makes a record from an entry that has neither a
\* published nor an updated timestamp, and every record it returns carries
\* a non-empty date.
C10_Timestamped ==
    \A c \in Calls :
        call[c].kind = "recent" =>
            /\ \A s \in Sources : \A i \in task[c][s].took :
                 LET e == task[c][s].feed[i]
                 IN e.published # NoDate \/ e.updated # NoDate
            /\ \A k \in 1..Len(call[c].result) : call[c].result[k].date # <<>>

\* A Recent call has returned records from a feed that also holds an entry
\* without any timestamp.
C10_Witness ==
    \E c \in Calls :
        /\ call[c].status = "returned"
        /\ call[c].kind = "recent"
        /\ call[c].result # <<>>
        /\ \E s \in Sources : \E i \in 1..Len(task[c][s].feed) :
            /\ EntryDate(task[c][s].feed[i]) = NoDate
            /\ task[c][s].took # {}

\* Two Recent calls that have returned, c1 with fewer hours than c2, whose
\* tasks worked on the same feed documents.
SameFeedsRecent(c1, c2) ==
    /\ call[c1].status = "returned" /\ call[c2].status = "returned"
    /\ call[c1].kind = "recent" /\ call[c2].kind = "recent"
    /\ call[c1].arg < call[c2].arg
    /\ \A s \in Sources : task[c1][s].feed = task[c2][s].feed

ClaimedTickerMatch(ticker, e) ==
    LET txt == upper(e.title \o <<" ">> \o e.summary)
        tk == upper(ticker)
    IN \E k \in 1..Len(txt) :
        k + Len(tk) - 1 <= Len(txt) /\ SubSeq(txt, k, k + Len(tk) - 1) = tk

\* C12: ByTicker(ticker) returns exactly the entries, of every source, whose
\* title and summary contain the ticker case-insensitively; no timestamp is
\* looked at, so a matching entry without a timestamp is returned and an
\* entry that does not contain the ticker never is.
C12_TickerExact ==
    \A c \in Calls :
        (call[c].status = "returned" /\ call[c].kind = "ticker") =>
            /\ \A s \in Sources : \A i \in 1..Len(task[c][s].feed) :
                i \in task[c][s].took
                    <=> ClaimedTickerMatch(call[c].given, task[c][s].feed[i])
            /\ ResultKeys(c) = KeysFrom(c, 1, 1)

\* A ByTicker call has returned the record of an entry without a timestamp
\* and has left out an entry of a feed that does not contain the ticker.
C12_Witness ==
    \E c \in Calls :
        /\ call[c].status = "returned"
        /\ call[c].kind = "ticker"
        /\ \E s \in Sources : \E i \in task[c][s].took :
            /\ EntryDate(task[c][s].feed[i]) = NoDate
            /\ \E k \in 1..Len(call[c].result) :
                call[c].result[k].title = task[c][s].feed[i].title
        /\ \E s \in Sources : \E i \in 1..Len(task[c][s].feed) :
            i \notin task[c][s].took

\* Two ByTicker calls that have returned, given tickers that differ at most
\* in letter case, whose tasks worked on the same feed documents.
SameFeedsTicker(c1, c2) ==
    /\ call[c1].status = "returned" /\ call[c2].status = "returned"
    /\ call[c1].kind = "ticker" /\ call[c2].kind = "ticker"
    /\ upper(call[c1].given) = upper(call[c2].given)
    /\ \A s \in Sources : task[c1][s].feed = task[c2][s].feed

\* C13: ByTicker is case-insensitive in its argument: calls given the same
\* ticker in different letter case return the same records in the same
\* order over the same feeds.
C13_CaseInsensitive ==
    \A c1, c2 \in Calls :
        SameFeedsTicker(c1, c2) => ResultKeys(c1) = ResultKeys(c2)

\* ByTicker("a") and ByTicker("A") have both returned records over the same
\* feed documents.
C13_Witness ==
    \E c1, c2 \in Calls :
        /\ SameFeedsTicker(c1, c2)
        /\ call[c1].given # call[c2].given
        /\ call[c1].result # <<>>

\* C14: a failed extraction is remembered: once the empty string is stored
\* for a link, the link keeps the empty string and is not downloaded again.
C14_FailureRemembered ==
    [][\A l \in DOMAIN _ARTICLE_CACHE :
          _ARTICLE_CACHE[l] = "" =>
              /\ l \in DOMAIN _ARTICLE_CACHE'
              /\ _ARTICLE_CACHE'[l] = ""
              /\ downloads'[l] = downloads[l]]_vars

\* C15: for an empty link the resolver answers "" at once: no download runs
\* for it, the article cache gets no entry for it, and the record made from
\* an entry without a link has an empty body.
C15_EmptyLinkUntouched ==
    /\ "" \notin DOMAIN _ARTICLE_CACHE
    /\ \A r \in running : r.job.kind = "text" => r.job.key # ""
    /\ \A c \in Calls : \A s \in Sources :
        \A k \in 1..Len(task[c][s].articles) :
            task[c][s].articles[k].link = "" => task[c][s].articles[k].text = ""

\* A task holds the record of a matching entry that has no link.
C15_Witness ==
    \E c \in Calls : \E s \in Sources :
        \E k \in 1..Len(task[c][s].articles) : task[c][s].articles[k].link = ""

\* C16: the feed cache never raises: a fetch that fails stores a document
\* without entries, so no per-source task ever ends with an exception and
\* every task that is past its fetch finds its URL in the feed cache.
C16_FeedNeverRaises ==
    \A c \in Calls : \A s \in Sources :
        /\ task[c][s].pc # "failed"
        /\ task[c][s].pc \in {"text", "done"} => FeedCached(RSS_FEEDS(s).url)

\* Entry e passes the filter of call c: it contains the ticker, or it is
\* dated no earlier than `hours` before some instant since the start.
PassesFilter(c, e) ==
    IF call[c].kind = "ticker"
    THEN ClaimedTickerMatch(call[c].given, e)
    ELSE EntryDate(e) # NoDate /\ EntryDate(e)[1] + call[c].arg >= Now0

\* The links of the entries, in the feeds the calls read, that pass the
\* filter of their call.
MatchedLinks ==
    {task[c][s].feed[i].link :
        <<c, s, i>> \in {x \in Calls \X Sources \X (1..MaxEntries) :
            /\ call[x[1]].status # "idle"
            /\ x[3] <= Len(task[x[1]][x[2]].feed)
            /\ PassesFilter(x[1], task[x[1]][x[2]].feed[x[3]])}}

\* C17: text is resolved only for matching entries: every text job, every
\* download and every article cache entry belongs to an entry that passes
\* the filter of its call; a call none of whose entries matched returns the
\* empty list, and while no entry of any call matches the cache is empty.
C17_OnlyMatchesResolved ==
    /\ \A k \in 1..Len(queue) :
        queue[k].kind = "text" =>
            LET t == task[queue[k].c][queue[k].s]
            IN t.pc = "text" /\ PassesFilter(queue[k].c, t.feed[t.i])
    /\ \A r \in running :
        r.job.kind = "text" =>
            LET t == task[r.job.c][r.job.s]
            IN t.pc = "text" /\ PassesFilter(r.job.c, t.feed[t.i])
    /\ DOMAIN _ARTICLE_CACHE \subseteq MatchedLinks
    /\ \A l \in Links : downloads[l] > 0 => l \in MatchedLinks
    /\ \A c \in Calls :
        call[c].status = "returned" =>
            /\ (\A s \in Sources : \A i \in 1..Len(task[c][s].feed) :
                    ~PassesFilter(c, task[c][s].feed[i]))
                => call[c].result = <<>>
            /\ (\A s \in Sources : task[c][s].took = {})
                => call[c].result = <<>>

\* A Recent call has returned the empty list over a feed with entries, none
\* of them recent, and the article cache is still empty.
C17_Witness ==
    \E c \in Calls :
        /\ call[c].status = "returned"
        /\ call[c].kind = "recent"
        /\ call[c].result = <<>>
        /\ \E s \in Sources : task[c][s].feed # <<>>
        /\ \A s \in Sources : \A i \in 1..Len(task[c][s].feed) :
            ~_is_recent(EntryDate(task[c][s].feed[i]), call[c].arg, now)
        /\ _ARTICLE_CACHE = EmptyCache
        /\ \A l \in Links : downloads[l] = 0

\* The text jobs of task (c, s) that the pool holds, queued or running.
TextPending(c, s) ==
    Cardinality({k \in 1..Len(queue) :
        queue[k].kind = "text" /\ queue[k].c = c /\ queue[k].s = s})
    + Cardinality({r \in running :
        r.job.kind = "text" /\ r.job.c = c /\ r.job.s = s})

\* C18 as claimed: the texts of the matching entries of one source are
\* resolved concurrently: while a task awaits the text of a matching entry
\* and a later entry of its feed matches too, the text of that later entry
\* is being resolved as well.
C18_TextsTogether ==
    \A c \in Calls : \A s \in Sources :
        LET t == task[c][s]
        IN (t.pc = "text" /\ \E j \in (t.i + 1)..Len(t.feed) :
                                PassesFilter(c, t.feed[j]))
            => TextPending(c, s) >= 2

\* C18 as the code has it: within one source the texts are resolved one at
\* a time in feed order: a task has at most one text in the pool, and while
\* it awaits the text of an entry the records of all matching entries
\* before it are complete and no later entry has been looked at.
C18_OneTextAtATime ==
    \A c \in Calls : \A s \in Sources :
        LET t == task[c][s]
        IN /\ TextPending(c, s) <= 1
           /\ t.pc = "text" =>
                /\ TextPending(c, s) = 1
                /\ Len(t.articles) = Cardinality(t.took) - 1
                /\ \A j \in t.took : j <= t.i

\* Two downloads of one call are in flight for two different sources, one of
\* them for the second matching entry of its source.
C18_Witness ==
    \E c \in Calls : \E r1, r2 \in running :
        /\ r1.job.kind = "text" /\ r2.job.kind = "text"
        /\ r1.job.c = c /\ r2.job.c = c
        /\ r1.job.s # r2.job.s
        /\ Len(task[c][r1.job.s].articles) >= 1

\* The table holds at most one row per link.
OneRowPerLink(rows) ==
    \A j, k \in 1..Len(rows) :
        (rows[j].link # None /\ rows[j].link = rows[k].link) => j = k

\* C19: persistence is insert-or-ignore keyed by link: after any sequence of
\* insert_articles and save_articles_to_db calls each table holds at most
\* one row per link, and a call never changes or removes a stored row: a
\* record whose link is already stored is dropped silently.
C19_InsertOrIgnore ==
    /\ [](OneRowPerLink(news) /\ OneRowPerLink(articles_db))
    /\ [][/\ Len(news') >= Len(news)
          /\ SubSeq(news', 1, Len(news)) = news
          /\ Len(articles_db') >= Len(articles_db)
          /\ SubSeq(articles_db', 1, Len(articles_db)) = articles_db]_vars

\* The last call wrote a record whose link the table already held with
\* another source and title, and the table still has the row it held.
IgnoredIn(rows, batch) ==
    \E k \in 1..Len(batch) : \E j \in 1..Len(rows) :
        /\ rows[j].link = batch[k].link
        /\ rows[j].source # batch[k].source
        /\ rows[j].title # batch[k].title

C19_Witness ==
    /\ IgnoredIn(news, last["insert_articles"])
    /\ IgnoredIn(articles_db, last["save_articles_to_db"])

\* C20: save_articles_to_csv avoids duplicates: the CSV file never holds
\* two rows with the same (title, source) pair.
C20_CsvNoDuplicates ==
    \A j, k \in 1..Len(csv_file.rows) :
        (/\ csv_file.rows[j].title = csv_file.rows[k].title
         /\ csv_file.rows[j].source = csv_file.rows[k].source) => j = k

\* Both collectors have returned.
BothReturned == call[1].status = "returned" /\ sync.pc = "done"

\* The two collectors returned the same records and left the same caches.
SameOutcome ==
    /\ call[1].result = sync.collected
    /\ _FEED_CACHE = sync.feed_cache
    /\ _ARTICLE_CACHE = sync.article_cache

\* C21: the synchronous and the asynchronous collector are equivalent: from
\* the same feed contents and the same caches, with no fetch failing, they
\* return the same record sequence and leave the same caches.
C21_SyncAsyncEquivalent == BothReturned => SameOutcome

\* The collectors agree whenever each of them saw one clock reading, and
\* always for ByTicker.
C21_EquivalentUnderOneClock ==
    (BothReturned /\ (call[1].kind = "ticker"
                        \/ (now = Now0 /\ sync.now = Now0)))
        => SameOutcome

\* C22: every collection call that was started eventually ends, whatever the
\* size of the pool and however many calls run at once: the queue of
\* blocking operations drains.  A call none of whose fetches raised ends by
\* returning.
\* (The calls are finitely many and an ended call stays ended, so this is:
\* from some instant on no call is running and the pool is idle.)
C22_CallsEnd ==
    /\ <>[](/\ \A c \in Calls : call[c].status # "running"
            /\ queue = <<>>
            /\ running = {})
    /\ [](\A c \in Calls :
            call[c].status = "failed" => \E s \in Sources : task[c][s].pc = "failed")

\* Two calls run at once on a pool of one thread: the thread is busy and
\* requests of both calls wait in the queue.
C22_Witness ==
    /\ max_workers = 1
    /\ Cardinality(running) = 1
    /\ \A c \in Calls :
        /\ call[c].status = "running"
        /\ \E k \in 1..Len(queue) : queue[k].c = c

\* The rows of a table, as a set.
Rows(table) == {table[k] : k \in 1..Len(table)}

\* The userdb call that was made last.
LastIs(name) == db_call.name = name

\* C25: a user's subscription list holds each ticker once and upper-cased;
\* subscribing to a ticker that is subscribed already, in any letter case,
\* changes nothing; remove_subscription(u, t) removes the subscription of u
\* whose ticker is t in any letter case, and nothing else.
C25_SubscriptionsAreASet ==
    /\ \A j, k \in 1..Len(subscriptions) :
        subscriptions[j] = subscriptions[k] => j = k
    /\ \A k \in 1..Len(subscriptions) :
        subscriptions[k][2] = upper(subscriptions[k][2])
    /\ (LastIs("add_subscription") \/ LastIs("add_subscriptions")) =>
        /\ ((\A k \in 1..Len(db_call.arg) :
                \/ db_call.arg[k] = <<>> /\ LastIs("add_subscriptions")
                \/ <<db_call.user_id, upper(db_call.arg[k])>>
                        \in Rows(db_call.subscriptions))
            => subscriptions = db_call.subscriptions)
        /\ Rows(db_call.subscriptions) \subseteq Rows(subscriptions)
    /\ LastIs("remove_subscription") =>
        \A row \in Rows(db_call.subscriptions) :
            row \in Rows(subscriptions)
                <=> ~(row[1] = db_call.user_id
                        /\ upper(row[2]) = upper(db_call.arg[1]))

\* remove_subscription(u, "a") has removed the subscription "A" of u and
\* left the other subscription of u and the subscription "A" of another
\* user.
C25_Witness ==
    /\ LastIs("remove_subscription")
    /\ db_call.arg = << <<"a">> >>
    /\ get_subscriptions_from(db_call.subscriptions, db_call.user_id)
            = << <<"A">>, <<"B">> >>
    /\ get_subscriptions(db_call.user_id) = << <<"B">> >>
    /\ \E v \in UserIds : v # db_call.user_id /\ get_subscriptions(v) = << <<"A">> >>

\* The token a table holds for a user, None without a row.
TokenIn(table, user_id) ==
    IF user_id \in DOMAIN table THEN table[user_id] ELSE None

\* C26: token and subscriptions are independent: save_token leaves every
\* subscription as it was, the subscription calls leave every token as it
\* was (also when they create the user's row), and a call for one user
\* changes neither the token nor the subscriptions of another user.
C26_TokenAndSubscriptionsIndependent ==
    /\ LastIs("save_token") =>
        /\ subscriptions = db_call.subscriptions
        /\ load_token(db_call.user_id) = db_call.arg[1]
    /\ (LastIs("add_subscription") \/ LastIs("add_subscriptions")
            \/ LastIs("remove_subscription")) =>
        \A v \in UserIds : load_token(v) = TokenIn(db_call.users, v)
    /\ \A v \in UserIds :
        v # db_call.user_id =>
            /\ load_token(v) = TokenIn(db_call.users, v)
            /\ get_subscriptions(v)
                = get_subscriptions_from(db_call.subscriptions, v)

\* save_token has overwritten the token of a user who has subscriptions,
\* while another user has a row of their own.
C26_Witness ==
    /\ LastIs("save_token")
    /\ TokenIn(db_call.users, db_call.user_id) \in Tokens
    /\ TokenIn(db_call.users, db_call.user_id) # db_call.arg[1]
    /\ get_subscriptions(db_call.user_id) # <<>>
\* ---------------------------------------------------------------- C24
\* The section the articles collected for task k call for, computed from
\* the result of collection call k.
ExpectedMessage(k) ==
    IF call[k].result = <<>> THEN NotFound
    ELSE Digest([i \in DOMAIN FirstArticles(k) |->
                    Part(FirstArticles(k)[i],
                         IF FirstArticles(k)[i].text = "" THEN <<>>
                         ELSE summarize_text(FirstArticles(k)[i].text))])

\* C24: the reply of /digest has exactly one section per subscribed
\* ticker, in the order of get_subscriptions, whatever the order in which
\* the per-ticker tasks finished; the section of a ticker whose collection
\* or summarizing raised carries the error message, and every other
\* section carries the digest of the articles collected for its ticker.
C24_DigestSectionPerTicker ==
    digest_run.pc = "replied" =>
        /\ digest_run.tickers = get_subscriptions(digest_run.user)
        /\ Len(digest_run.reply) = Len(digest_run.tickers)
        /\ \A k \in DOMAIN digest_run.tickers :
              /\ digest_run.reply[k].ticker = digest_run.tickers[k]
              /\ call[k].given = digest_run.tickers[k]
              /\ digest_run.tasks[k].raised # "no"
                    => digest_run.reply[k].msg = ErrorMessage
              /\ digest_run.tasks[k].raised = "no"
                    => digest_run.reply[k].msg = ExpectedMessage(k)

\* The reply was sent for two tickers whose tasks finished in the reverse
\* order: summarizing for the first raised, the second has its own
\* section.
C24_Witness ==
    /\ digest_run.pc = "replied"
    /\ Len(digest_run.tickers) = 2
    /\ digest_run.finished = <<2, 1>>
    /\ digest_run.tasks[1].raised = "summarize"
    /\ digest_run.tasks[2].raised = "no"
    /\ digest_run.reply[2].msg # ErrorMessage

\* ---------------------------------------------------------------- C23
\* Every update of the user has been handled.
Handled(user) ==
    \A k \in DOMAIN updates : updates[k].user = user => updates[k].pc = "done"

\* Between the handlers of a user, a user with a stored token is not in
\* WAITING_TOKEN.
NotWaitingWithToken ==
    \A u \in UserIds :
        Handled(u) /\ load_token(u) \in Tokens => u \notin WAITING_TOKEN

\* No step replaces a stored token by another.
StoredTokenKept ==
    \A u \in UserIds : load_token(u) \in Tokens => users'[u] = users[u]

\* C23: a user is in WAITING_TOKEN only while no token is stored for them:
\* under every interleaving of the user's concurrently handled updates,
\* once save_token has stored a token the user is not in WAITING_TOKEN (as
\* soon as the handlers in flight have returned) and is not added to it
\* again, and no later text message overwrites the stored token.
C23_WaitingOnlyWithoutToken ==
    /\ []NotWaitingWithToken
    /\ [][StoredTokenKept]_vars
\* ---------------------------------------------------------------- C27
\* C27: replace_portfolio replaces atomically: whatever the interleaving of
\* the replace_portfolio calls for a user, the rows fetch_portfolio returns
\* for the user are the rows of one call, never a mix of two portfolios
\* and never doubled.
C27_PortfolioIsOneReplacement ==
    \A u \in UserIds :
        \A r1, r2 \in fetch_portfolio(u) : r1.by = r2.by
\* ---------------------------------------------------------------- C28
\* Positions in the log of the calls to `name`.
Events(name) == {j \in DOMAIN pipeline.log : pipeline.log[j].call = name}

\* The analyses logged that gave a result, in the order of the log.
Successful ==
    SelectSeq(pipeline.log,
              LAMBDA e : e.call = "analyze_text" /\ e.arg[2] = "result")

\* Before any analysis the collected articles were passed to
\* insert_articles, and news holds a row for the link of each.
InsertedBeforeAnalysis ==
    \A j \in Events("analyze_text") :
        /\ \E i \in Events("insert_articles") :
              i < j /\ pipeline.log[i].arg = pipeline.articles
        /\ \A k \in DOMAIN pipeline.articles :
              \E r \in DOMAIN news : news[r].link = pipeline.articles[k].link

\* After an analysis without result the next article is analysed.
SkippedNotStopped ==
    \A j \in Events("analyze_text") :
        LET i == pipeline.log[j].arg[1]
        IN pipeline.log[j].arg[2] = "None" /\ i < Len(pipeline.articles) =>
             IF j = Len(pipeline.log)
             THEN pipeline.pc = "analyse" /\ pipeline.i = i + 1
             ELSE /\ pipeline.log[j + 1].call = "analyze_text"
                  /\ pipeline.log[j + 1].arg[1] = i + 1

\* insert_ai_articles gets, once every article has been analysed, the
\* articles whose analysis gave a result, in collection order, each with
\* the link of an article passed to insert_articles before.
PassedAreAnalysed ==
    \A j \in Events("insert_ai_articles") :
        LET passed == pipeline.log[j].arg
        IN /\ Cardinality(Events("analyze_text")) = Len(pipeline.articles)
           /\ Len(passed) = Len(Successful)
           /\ \A k \in DOMAIN passed :
                 /\ passed[k].title = pipeline.articles[Successful[k].arg[1]].title
                 /\ passed[k].link = pipeline.articles[Successful[k].arg[1]].link
                 /\ \E i \in Events("insert_articles") :
                       /\ i < j
                       /\ \E m \in DOMAIN pipeline.log[i].arg :
                             pipeline.log[i].arg[m].link = passed[k].link

\* C28: in every pipeline run the collected articles are inserted into
\* news before any article is analysed; an article whose analysis gives no
\* result is skipped and the later articles are still analysed; and the
\* records passed to insert_ai_articles are, in collection order, exactly
\* the successfully analysed articles, each with the link of an article
\* passed to insert_articles in the same run.
C28_PipelineOrder ==
    /\ InsertedBeforeAnalysis
    /\ SkippedNotStopped
    /\ PassedAreAnalysed

\* A run has ended in which the first of two articles gave no result and
\* the second was analysed and passed to insert_ai_articles.
C28_Witness ==
    /\ pipeline.pc = "ended"
    /\ Len(pipeline.articles) = 2
    /\ Events("insert_ai_articles") # {}
    /\ pipeline.log[2].arg = <<1, "None">>
    /\ pipeline.log[3].arg = <<2, "result">>
    /\ Len(ai_news) = 1

====
